---- MODULE Spec2Model ----
(***************************************************************************)
(* Model of DCGAN_FID_batched/model.py: construction of the DCGAN object   *)
(* (__init__ and build_model), the training loop train(), and the          *)
(* checkpoint operations save() and load().                                *)
(*                                                                         *)
(* One behaviour is a sequence of program runs that share the checkpoint   *)
(* directories on disk.  A run constructs the model, calls train() once    *)
(* and ends; every session run (sess.run), file access and library call is *)
(* one step that either succeeds or raises, and a KeyboardInterrupt may    *)
(* arrive between any two steps of train().                                *)
(***************************************************************************)
EXTENDS Integers, Sequences, FiniteSets, TLC

\* ------------------------------------------------------------------------
\* Bounds of the model
\* ------------------------------------------------------------------------
MaxDUpdates == 2      \* largest num_discriminator_updates tried
MaxEpoch == 2         \* largest config.epoch tried
MaxPaths == 3         \* largest number of image files found by the loader
MaxFidSamples == 3    \* largest requested fid_n_samples
MaxBatch == 3         \* largest batch_size tried for the interpolates

\* ------------------------------------------------------------------------
\* Program constants
\* ------------------------------------------------------------------------
SummaryEvery == 20        \* np.mod(counter, 20)
CheckpointEvery == 2000   \* np.mod(counter, 2000)
SentinelFID == 500        \* FID=500 in the except branch

GanMethods == {"penalized_wgan", "improved_wgan", "regular_gan"}
Dirs == {"ckpt_a", "ckpt_b"}
NoCheckpoint == [step |-> -1, values |-> << >>]

\* ------------------------------------------------------------------------
\* Names of the trainable variables.  A layer called inside
\* tf.variable_scope(S) with name=L creates variables named "S/L/...";
\* a name is modelled as the sequence of its characters up to the layer.
\* ------------------------------------------------------------------------
DiscriminatorConvNames ==
  << <<"d","i","s","c","r","i","m","i","n","a","t","o","r","/","d","_","h","0","_","c","o","n","v">>,
     <<"d","i","s","c","r","i","m","i","n","a","t","o","r","/","d","_","h","1","_","c","o","n","v">>,
     <<"d","i","s","c","r","i","m","i","n","a","t","o","r","/","d","_","h","2","_","c","o","n","v">>,
     <<"d","i","s","c","r","i","m","i","n","a","t","o","r","/","d","_","h","3","_","c","o","n","v">>,
     <<"d","i","s","c","r","i","m","i","n","a","t","o","r","/","d","_","h","3","_","l","i","n">> >>

DiscriminatorBnNames ==
  << <<"d","i","s","c","r","i","m","i","n","a","t","o","r","/","d","_","b","n","1">>,
     <<"d","i","s","c","r","i","m","i","n","a","t","o","r","/","d","_","b","n","2">>,
     <<"d","i","s","c","r","i","m","i","n","a","t","o","r","/","d","_","b","n","3">> >>

GeneratorNames ==
  << <<"g","e","n","e","r","a","t","o","r","/","g","_","h","0","_","l","i","n">>,
     <<"g","e","n","e","r","a","t","o","r","/","g","_","b","n","0">>,
     <<"g","e","n","e","r","a","t","o","r","/","g","_","h","1">>,
     <<"g","e","n","e","r","a","t","o","r","/","g","_","b","n","1">>,
     <<"g","e","n","e","r","a","t","o","r","/","g","_","h","2">>,
     <<"g","e","n","e","r","a","t","o","r","/","g","_","b","n","2">>,
     <<"g","e","n","e","r","a","t","o","r","/","g","_","h","3">>,
     <<"g","e","n","e","r","a","t","o","r","/","g","_","b","n","3">>,
     <<"g","e","n","e","r","a","t","o","r","/","g","_","h","4">> >>

Range(s) == {s[k] : k \in 1..Len(s)}

\* tf.trainable_variables() after the discriminator and the generator have
\* been built; without discriminator batch norm d_bn1..3 are identities and
\* create no variable.
TrainableVariables(discriminator_batch_norm) ==
  Range(DiscriminatorConvNames)
    \cup (IF discriminator_batch_norm THEN Range(DiscriminatorBnNames) ELSE {})
    \cup Range(GeneratorNames)

\* Python's `sub in name` on strings.
Contains(sub, name) ==
  \E k \in 1..(Len(name) - Len(sub) + 1) : SubSeq(name, k, k + Len(sub) - 1) = sub

DVarsOfMut(t) == {v \in t : Contains(<<"_">>, v)}
\* self.d_vars = [var for var in t_vars if 'd_' in var.name]
DVarsOf(t) == {v \in t : Contains(<<"d","_">>, v)}

\* self.g_vars = [var for var in t_vars if 'g_' in var.name]
GVarsOf(t) == {v \in t : Contains(<<"g","_">>, v)}

\* ------------------------------------------------------------------------
\* Pure helpers of build_model and train
\* ------------------------------------------------------------------------
Zero == "zero"          \* the constant tensor tf.zeros([])
Computed == "computed"  \* a tensor computed from the batch
Undefined == "undefined"

PenaltyScalarsMut(gan_method) ==
  [d_lipschitz_penalty_loss |-> IF gan_method = "penalized_wgan" THEN Computed ELSE Zero,
   d_gradient_penalty_loss  |-> IF gan_method \in {"penalized_wgan", "improved_wgan"}
                                THEN Computed ELSE Zero,
   d_mean_slope_target      |-> IF gan_method \in {"penalized_wgan", "improved_wgan"}
                                THEN Computed ELSE Zero,
   d_lipschitz_estimate     |-> IF gan_method = "penalized_wgan" THEN Computed ELSE Zero]
\* The four penalty scalars start as tf.zeros([]); the penalized_wgan
\* branch reassigns all four, the improved_wgan branch only the gradient
\* penalty, the regular_gan branch none.
PenaltyScalars(gan_method) ==
  [d_lipschitz_penalty_loss |-> IF gan_method = "penalized_wgan" THEN Computed ELSE Zero,
   d_gradient_penalty_loss  |-> IF gan_method \in {"penalized_wgan", "improved_wgan"}
                                THEN Computed ELSE Zero,
   d_mean_slope_target      |-> IF gan_method = "penalized_wgan" THEN Computed ELSE Zero,
   d_lipschitz_estimate     |-> IF gan_method = "penalized_wgan" THEN Computed ELSE Zero]

NoPenaltyScalars ==
  [d_lipschitz_penalty_loss |-> Undefined, d_gradient_penalty_loss |-> Undefined,
   d_mean_slope_target |-> Undefined, d_lipschitz_estimate |-> Undefined]

AdjustedFidSamplesMut(n, b) == IF n % b = 0 THEN n ELSE ((n \div b) + 1) * b
\* if not (fid_n_samples % fid_sample_batchsize == 0):
\*   fid_n_samples = (fid_n_samples // fid_sample_batchsize) * fid_sample_batchsize
AdjustedFidSamples(n, b) == IF n % b = 0 THEN n ELSE (n \div b) * b

ArgsValidMut(a) ==
  /\ a.lipschitz_penalty >= 0
  /\ a.gradient_penalty >= 0
  /\ a.num_discriminator_updates >= 1
\* The four assertions at the head of __init__.
ArgsValid(a) ==
  /\ a.lipschitz_penalty >= 0
  /\ a.gradient_penalty >= 0
  /\ a.gan_method \in GanMethods
  /\ a.num_discriminator_updates >= 1

Min(a, b) == IF a < b THEN a ELSE b

BatchNumsMut(npaths, cfg) ==
  (Min(npaths, cfg.train_size) + cfg.batch_size - 1) \div cfg.batch_size
\* batch_nums = min(len(self.paths), config.train_size) // config.batch_size
BatchNums(npaths, cfg) == Min(npaths, cfg.train_size) \div cfg.batch_size

CheckpointDueMut(c) == c % CheckpointEvery = 0
\* (counter != 0) and (np.mod(counter, 2000) == 0)
CheckpointDue(c) == c # 0 /\ c % CheckpointEvery = 0

\* np.mod(counter, config.fid_eval_steps) == 0
EvalDue(c, cfg) == c % cfg.fid_eval_steps = 0

\* np.mod(counter, 20) == 0
SummaryDue(c) == c % SummaryEvery = 0


\* ------------------------------------------------------------------------
\* State
\* ------------------------------------------------------------------------
VARIABLES
  args,          \* the arguments DCGAN(...) is constructed with, and len(paths)
  config,        \* the config object handed to train()
  run,           \* "first" or "resumed": which program run this is
  pc,            \* position of the run
  cause,         \* kind of the exception raised in this run, or "none"
  raised_at,     \* position at which it was raised, or "none"
  pending,       \* TRUE while an exception is propagating out of train()
  d_vars,        \* self.d_vars
  g_vars,        \* self.g_vars
  penalties,     \* the four penalty scalars of the graph
  fid_n_samples, \* self.fid_n_samples
  G_interpolate, \* self.G_interpolate: for every element, the component of alpha mixing it
  interpolates,  \* improved_wgan's interpolates, likewise; << >> when not built
  coord,         \* the data-feed workers: "none", "running", "stop_requested", "joined"
  params,        \* value of every trainable variable in the session
  store,         \* latest checkpoint of every checkpoint directory on disk
  counter,       \* train(): counter
  epoch,         \* train(): epoch
  batch_idx,     \* train(): batch_idx
  batch_nums,    \* train(): batch_nums
  i,             \* train(): index of the extra discriminator updates
  lo,            \* train(): lo, first row of the next FID sub-batch
  samples,       \* train(): samples, as the number of writes to every row
  FID,           \* train(): FID
  fid,           \* self.fid, the FID scalar of the summaries
  d_applied,     \* runs of self.d_optim in the current step
  g_applied,     \* runs of self.g_optim in the current step
  evaluated,     \* the current step ran the sample/FID evaluation
  saved,         \* the current step persisted the periodic checkpoint
  steps,         \* steps completed by this train() call
  caught,        \* operations of the current step whose error was caught in the step
  restored,      \* the checkpoint restored by this run's load(), if any
  handler_save   \* step tag of the save() called by the interrupt handler, or -1

buildVars == <<d_vars, g_vars, penalties, fid_n_samples, G_interpolate, interpolates>>
loopVars == <<counter, epoch, batch_idx, batch_nums, i>>
fidVars == <<lo, samples, FID, fid>>
stepVars == <<d_applied, g_applied, evaluated, saved, steps, caught>>
vars == <<args, config, run, pc, cause, raised_at, pending, buildVars, coord, params, store,
          loopVars, fidVars, stepVars, restored, handler_save>>

\* ------------------------------------------------------------------------
\* Configurations explored
\* ------------------------------------------------------------------------
\* Python truthiness of y_dim: None (0 here) when no conditional GAN is asked for.
YDimNone == 0

CounterStarts == {0, CheckpointEvery - 1, CheckpointEvery}

DefaultArgs ==
  [gan_method |-> "regular_gan", lipschitz_penalty |-> 1, gradient_penalty |-> 1,
   num_discriminator_updates |-> 1, y_dim |-> YDimNone,
   discriminator_batch_norm |-> TRUE, load_checkpoint |-> FALSE,
   counter_start |-> 0, checkpoint_dir |-> "ckpt_a",
   fid_n_samples |-> 2, fid_sample_batchsize |-> 1, npaths |-> 2,
   batch_size |-> 1, output_height |-> 2, output_width |-> 2, c_dim |-> 1]

DefaultConfig ==
  [epoch |-> 1, train_size |-> 2, batch_size |-> 1, learning_rate_g |-> 1,
   fid_eval_steps |-> 1, checkpoint_dir |-> "ckpt_a"]

\* Construction: every constructor argument that build_model reads.
ArgsBuild ==
  {[DefaultArgs EXCEPT !.gan_method = g, !.lipschitz_penalty = lp,
                       !.gradient_penalty = gp, !.num_discriminator_updates = k,
                       !.y_dim = y, !.discriminator_batch_norm = bn,
                       !.fid_n_samples = n, !.fid_sample_batchsize = b, !.npaths = 1] :
     g \in GanMethods \cup {"bogus"}, lp \in {-1, 1}, gp \in {-1, 1},
     k \in 0..MaxDUpdates, y \in {YDimNone, 1}, bn \in BOOLEAN,
     n \in 0..MaxFidSamples, b \in {1, 2}}

ConfigsBuild == {DefaultConfig}

\* The training loop: update ratio, cadences, epochs and batches.
ArgsTrain ==
  {[DefaultArgs EXCEPT !.num_discriminator_updates = k, !.counter_start = c,
                       !.npaths = p] :
     k \in 1..MaxDUpdates, c \in CounterStarts, p \in 1..MaxPaths}

ConfigsTrain ==
  {[DefaultConfig EXCEPT !.epoch = e, !.train_size = t, !.batch_size = bs,
                         !.learning_rate_g = lr, !.fid_eval_steps = f] :
     e \in 0..MaxEpoch, t \in {2, MaxPaths}, bs \in {1, 2}, lr \in {0, 1},
     f \in {1, 2}}

\* Checkpointing: where checkpoints are written and read, and the resume flags.
ResumeFlags ==
  {[load_checkpoint |-> l, counter_start |-> c, checkpoint_dir |-> d] :
     l \in BOOLEAN, c \in CounterStarts, d \in Dirs}

ArgsResume ==
  {[DefaultArgs EXCEPT !.load_checkpoint = r.load_checkpoint,
                       !.counter_start = r.counter_start,
                       !.checkpoint_dir = r.checkpoint_dir] : r \in ResumeFlags}

ConfigsResume == {[DefaultConfig EXCEPT !.checkpoint_dir = d] : d \in Dirs}

\* The interpolates: method, batch size and image shape.
ArgsAlpha ==
  {[DefaultArgs EXCEPT !.gan_method = g, !.batch_size = b, !.output_height = h,
                       !.output_width = w, !.c_dim = c] :
     g \in GanMethods, b \in 1..MaxBatch, h \in {2, 3}, w \in {2, 3}, c \in {1, 3}}

ConfigsAlpha == {DefaultConfig}

\* A fresh process: nothing constructed, nothing run.
Fresh(a, c, r, st) ==
  /\ args = a
  /\ config = c
  /\ run = r
  /\ store = st
  /\ pc = "new"
  /\ cause = "none"
  /\ raised_at = "none"
  /\ pending = FALSE
  /\ d_vars = {}
  /\ g_vars = {}
  /\ penalties = NoPenaltyScalars
  /\ fid_n_samples = a.fid_n_samples
  /\ G_interpolate = << >>
  /\ interpolates = << >>
  /\ coord = "none"
  /\ params = << >>
  /\ counter = 0
  /\ epoch = 0
  /\ batch_idx = 0
  /\ batch_nums = 0
  /\ i = 0
  /\ lo = 0
  /\ samples = << >>
  /\ FID = 0
  /\ fid = 0
  /\ d_applied = 0
  /\ g_applied = 0
  /\ evaluated = FALSE
  /\ saved = FALSE
  /\ steps = 0
  /\ caught = {}
  /\ restored = NoCheckpoint
  /\ handler_save = -1

InitBuild ==
  \E a \in ArgsBuild, c \in ConfigsBuild : Fresh(a, c, "first", [d \in Dirs |-> NoCheckpoint])

Init ==
  \E a \in ArgsTrain, c \in ConfigsTrain : Fresh(a, c, "first", [d \in Dirs |-> NoCheckpoint])

InitResume ==
  \E a \in ArgsResume, c \in ConfigsResume : Fresh(a, c, "first", [d \in Dirs |-> NoCheckpoint])

InitAlpha ==
  \E a \in ArgsAlpha, c \in ConfigsAlpha : Fresh(a, c, "first", [d \in Dirs |-> NoCheckpoint])

\* ------------------------------------------------------------------------
\* Construction: DCGAN.__init__ and build_model
\* ------------------------------------------------------------------------
\* if self.y_dim: ... raise SystemExit()
ConditionalRequested(a) == a.y_dim # YDimNone

\* tf.global_variables_initializer(): a value is the pair of the run that
\* initialised it and the number of optimizer applications since.
InitialValues(t, r) == [v \in t |-> <<r, 0>>]

\* Shape of self.G and of the real batch: [batch_size, s_h, s_w, c_dim].
ImageShape(a) == <<a.batch_size, a.output_height, a.output_width, a.c_dim>>

\* alpha = tf.random_uniform(shape=[self.batch_size,1,1,1], ...)
PenalizedAlphaShape(a) == <<a.batch_size, 1, 1, 1>>

\* alpha = tf.random_uniform(shape=[self.batch_size,1], ...)
ImprovedAlphaShape(a) == <<a.batch_size, 1>>

Max(a, b) == IF a > b THEN a ELSE b

\* Broadcasting of alpha*inputs: the shapes are aligned on their last axis
\* and the shorter one is padded with 1 on the left.
Padded(shape, rank) ==
  [j \in 1..rank |-> IF j <= rank - Len(shape) THEN 1
                     ELSE shape[j - (rank - Len(shape))]]

\* Two axes are compatible when they are equal or one of them is 1;
\* otherwise building the product raises ValueError.
Broadcastable(s, t) ==
  LET rank == Max(Len(s), Len(t)) IN
    \A j \in 1..rank :
      \/ Padded(s, rank)[j] = Padded(t, rank)[j]
      \/ Padded(s, rank)[j] = 1
      \/ Padded(t, rank)[j] = 1

BroadcastShape(s, t) ==
  LET rank == Max(Len(s), Len(t)) IN
    [j \in 1..rank |-> Max(Padded(s, rank)[j], Padded(t, rank)[j])]

\* The index tuples of a tensor of rank 4.
Elements(shape) ==
  {<<n, h, w, c>> : n \in 1..shape[1], h \in 1..shape[2], w \in 1..shape[3],
                    c \in 1..shape[4]}

\* The component of an operand of the given shape that element e of the
\* broadcast result is computed from.
Operand(shape, e) ==
  [j \in 1..Len(shape) |->
     IF shape[j] = 1 THEN 1 ELSE e[j + (Len(e) - Len(shape))]]

\* alpha * inputs + (1 - alpha) * self.G: for every element of the result,
\* the component of alpha it is mixed with.
Mix(alphaShape, imageShape) ==
  [e \in Elements(BroadcastShape(alphaShape, imageShape)) |-> Operand(alphaShape, e)]

Construct ==
  /\ pc = "new"
  /\ IF ~ArgsValid(args)
       THEN /\ pc' = "config_error"
            /\ cause' = "AssertionError"
            /\ raised_at' = pc
            /\ UNCHANGED <<buildVars, coord, params>>
     ELSE IF ConditionalRequested(args)
       THEN \* raised after the loader and the latent inputs are built, before
            \* any variable is initialised and any queue runner is started
            /\ pc' = "config_error"
            /\ cause' = "SystemExit"
            /\ raised_at' = pc
            /\ UNCHANGED <<buildVars, coord, params>>
     ELSE IF /\ args.gan_method = "improved_wgan"
             /\ ~Broadcastable(ImprovedAlphaShape(args), ImageShape(args))
       THEN \* alpha*inputs in the improved_wgan branch raises ValueError
            /\ pc' = "config_error"
            /\ cause' = "ValueError"
            /\ raised_at' = pc
            /\ UNCHANGED <<buildVars, coord, params>>
     ELSE LET t == TrainableVariables(args.discriminator_batch_norm) IN
            /\ G_interpolate' = Mix(PenalizedAlphaShape(args), ImageShape(args))
            /\ interpolates' = IF args.gan_method = "improved_wgan"
                                 THEN Mix(ImprovedAlphaShape(args), ImageShape(args))
                                 ELSE << >>
            /\ penalties' = PenaltyScalars(args.gan_method)
            /\ d_vars' = DVarsOf(t)
            /\ g_vars' = GVarsOf(t)
            /\ params' = InitialValues(t, run)
            /\ coord' = "running"
            /\ fid_n_samples' = AdjustedFidSamples(args.fid_n_samples,
                                                   args.fid_sample_batchsize)
            /\ pc' = "load_stats"
            /\ UNCHANGED <<cause, raised_at>>
  /\ UNCHANGED <<args, config, run, pending, store, loopVars, fidVars, stepVars,
                 restored, handler_save>>


\* ------------------------------------------------------------------------
\* train(): the statements before the try block
\* ------------------------------------------------------------------------
PreTryPcs == {"load_stats", "load_checkpoint"}

TryPcs == {"epoch_head", "d_first", "d_extra", "d_summary", "g_update", "g_summary",
           "sample", "fid_fill", "fid_stats", "fid_dist", "fid_record",
           "checkpoint", "increment"}

\* An exception raised outside the try block leaves train() at once.
Propagate(kind) ==
  /\ pc' = "raised"
  /\ cause' = kind
  /\ raised_at' = pc
  /\ pending' = TRUE

RaiseMut ==
  /\ pc' = "except_exception"
  /\ cause' = "Exception"
  /\ raised_at' = pc
  /\ pending' = TRUE
\* An Exception raised inside the try block goes to `except Exception`.
Raise ==
  /\ pc' = "except_exception"
  /\ cause' = "Exception"
  /\ raised_at' = pc
  /\ UNCHANGED pending

\* assert len(self.paths) > 0; f = np.load(self.stats_path); ...; f.close()
LoadStats ==
  /\ pc = "load_stats"
  /\ args.npaths > 0
  /\ \E ok \in BOOLEAN :
       IF ok THEN pc' = "load_checkpoint" /\ UNCHANGED <<cause, raised_at, pending>>
             ELSE Propagate("Exception")
  /\ UNCHANGED <<args, config, run, buildVars, coord, params, store, loopVars,
                 fidVars, stepVars, restored, handler_save>>

RestoredValuesMut(ckpt, current) == current
\* self.saver.restore(self.sess, ...): every variable takes its saved value.
RestoredValues(ckpt, current) == ckpt.values

\* counter = self.counter_start
StartCounter(a, ckpt) == a.counter_start

\* if self.load_checkpoint: self.load(self.checkpoint_dir), then the
\* statements up to the try block.
LoadCheckpoint ==
  /\ pc = "load_checkpoint"
  /\ LET ckpt == store[args.checkpoint_dir]
         found == args.load_checkpoint /\ ckpt # NoCheckpoint
     IN \E ok \in BOOLEAN :
          IF found /\ ~ok
            THEN /\ Propagate("Exception")
                 /\ UNCHANGED <<params, restored, loopVars>>
            ELSE /\ params' = IF found THEN RestoredValues(ckpt, params) ELSE params
                 /\ restored' = IF found THEN ckpt ELSE NoCheckpoint
                 /\ batch_nums' = BatchNums(args.npaths, config)
                 /\ counter' = StartCounter(args, IF found THEN ckpt ELSE NoCheckpoint)
                 /\ epoch' = 0
                 /\ pc' = "epoch_head"
                 /\ UNCHANGED <<cause, raised_at, pending, batch_idx, i>>
  /\ UNCHANGED <<args, config, run, buildVars, coord, store, fidVars, stepVars,
                 handler_save>>

\* ------------------------------------------------------------------------
\* train(): the loops
\* ------------------------------------------------------------------------
\* for epoch in range(config.epoch): assign the learning rates, then enter
\* for batch_idx in range(batch_nums).
EpochHead ==
  /\ pc = "epoch_head"
  /\ IF epoch < config.epoch
       THEN \E ok \in BOOLEAN :
              IF ~ok THEN Raise /\ UNCHANGED <<epoch, batch_idx>>
              ELSE /\ IF batch_nums > 0
                        THEN pc' = "d_first" /\ batch_idx' = 0 /\ UNCHANGED epoch
                        ELSE pc' = "epoch_head" /\ epoch' = epoch + 1
                                                /\ UNCHANGED batch_idx
                   /\ UNCHANGED <<cause, raised_at, pending>>
       ELSE /\ pc' = "finally_stop"
            /\ UNCHANGED <<cause, raised_at, pending, epoch, batch_idx>>
  /\ UNCHANGED <<args, config, run, buildVars, coord, params, store, counter,
                 batch_nums, i, fidVars, stepVars, restored, handler_save>>

\* One application of an optimizer to its var_list.
Applied(p, var_list) ==
  [v \in DOMAIN p |-> IF v \in var_list THEN <<p[v][1], p[v][2] + 1>> ELSE p[v]]

\* self.sess.run([self.d_optim, ...]): the first discriminator update.
DFirst ==
  /\ pc = "d_first"
  /\ \E ok \in BOOLEAN :
       IF ~ok THEN Raise /\ UNCHANGED <<params, d_applied, i>>
       ELSE /\ params' = Applied(params, d_vars)
            /\ d_applied' = d_applied + 1
            /\ i' = 0
            /\ pc' = "d_extra"
            /\ UNCHANGED <<cause, raised_at, pending>>
  /\ UNCHANGED <<args, config, run, buildVars, coord, store, counter, epoch,
                 batch_idx, batch_nums, fidVars, g_applied, evaluated, saved, steps,
                 caught, restored, handler_save>>

ExtraDUpdatesMut(k) == k
\* range(self.num_discriminator_updates - 1)
ExtraDUpdates(k) == k - 1

\* for i in range(self.num_discriminator_updates - 1): self.sess.run([self.d_optim, ...])
DExtra ==
  /\ pc = "d_extra"
  /\ IF i < ExtraDUpdates(args.num_discriminator_updates)
       THEN \E ok \in BOOLEAN :
              IF ~ok THEN Raise /\ UNCHANGED <<params, d_applied, i>>
              ELSE /\ params' = Applied(params, d_vars)
                   /\ d_applied' = d_applied + 1
                   /\ i' = i + 1
                   /\ UNCHANGED <<pc, cause, raised_at, pending>>
       ELSE /\ pc' = "d_summary"
            /\ UNCHANGED <<params, d_applied, i, cause, raised_at, pending>>
  /\ UNCHANGED <<args, config, run, buildVars, coord, store, counter, epoch,
                 batch_idx, batch_nums, fidVars, g_applied, evaluated, saved, steps,
                 caught, restored, handler_save>>

\* if np.mod(counter, 20) == 0: self.writer.add_summary(summary_str, counter)
DSummary ==
  /\ pc = "d_summary"
  /\ \E ok \in BOOLEAN :
       IF SummaryDue(counter) /\ ~ok THEN Raise
       ELSE pc' = "g_update" /\ UNCHANGED <<cause, raised_at, pending>>
  /\ UNCHANGED <<args, config, run, buildVars, coord, params, store, loopVars,
                 fidVars, stepVars, restored, handler_save>>

\* if config.learning_rate_g > 0.:
GeneratorTrained(cfg) == cfg.learning_rate_g > 0

\* _, errG_, summary_str = self.sess.run([self.g_optim, self.g_loss, self.g_sum])
GUpdate ==
  /\ pc = "g_update"
  /\ IF GeneratorTrained(config)
       THEN \E ok \in BOOLEAN :
              IF ~ok THEN Raise /\ UNCHANGED <<params, g_applied>>
              ELSE /\ params' = Applied(params, g_vars)
                   /\ g_applied' = g_applied + 1
                   /\ pc' = "g_summary"
                   /\ UNCHANGED <<cause, raised_at, pending>>
       ELSE /\ pc' = "sample"
            /\ UNCHANGED <<params, g_applied, cause, raised_at, pending>>
  /\ UNCHANGED <<args, config, run, buildVars, coord, store, loopVars, fidVars,
                 d_applied, evaluated, saved, steps, caught, restored, handler_save>>

\* the add_summary inside the generator branch
GSummary ==
  /\ pc = "g_summary"
  /\ \E ok \in BOOLEAN :
       IF SummaryDue(counter) /\ ~ok THEN Raise
       ELSE pc' = "sample" /\ UNCHANGED <<cause, raised_at, pending>>
  /\ UNCHANGED <<args, config, run, buildVars, coord, params, store, loopVars,
                 fidVars, stepVars, restored, handler_save>>


\* ------------------------------------------------------------------------
\* train(): periodic sample grid and FID evaluation
\* ------------------------------------------------------------------------
ComputedFIDs == {7}   \* values calculate_frechet_distance may return

\* n_batches = self.fid_n_samples // self.fid_sample_batchsize
NBatches == fid_n_samples \div args.fid_sample_batchsize

\* btch, the index of the for loop: lo advances by one sub-batch per pass
btch == lo \div args.fid_sample_batchsize

SampleMut ==
  /\ pc = "sample"
  /\ IF EvalDue(counter, config)
       THEN \E ok \in BOOLEAN :
              IF ~ok THEN Raise /\ UNCHANGED <<caught, evaluated, samples, lo>>
              ELSE /\ evaluated' = TRUE
                   /\ samples' = [r \in 1..fid_n_samples |-> 0]
                   /\ lo' = 0
                   /\ pc' = "fid_fill"
                   /\ UNCHANGED <<caught, cause, raised_at, pending>>
       ELSE /\ pc' = "checkpoint"
            /\ UNCHANGED <<caught, evaluated, samples, lo, cause, raised_at, pending>>
  /\ UNCHANGED <<args, config, run, buildVars, coord, params, store, loopVars,
                 FID, fid, d_applied, g_applied, saved, steps, restored,
                 handler_save>>
\* if np.mod(counter, config.fid_eval_steps) == 0: the try block that runs
\* the sampler and writes the image grid, whose errors are caught and
\* printed; then samples = np.zeros((self.fid_n_samples, ...)); lo = 0
Sample ==
  /\ pc = "sample"
  /\ IF EvalDue(counter, config)
       THEN \E ok \in BOOLEAN :
              /\ caught' = IF ok THEN caught ELSE caught \cup {"sample"}
              /\ evaluated' = TRUE
              /\ samples' = [r \in 1..fid_n_samples |-> 0]
              /\ lo' = 0
              /\ pc' = "fid_fill"
       ELSE /\ pc' = "checkpoint"
            /\ UNCHANGED <<caught, evaluated, samples, lo>>
  /\ UNCHANGED <<args, config, run, cause, raised_at, pending, buildVars, coord,
                 params, store, loopVars, FID, fid, d_applied, g_applied, saved,
                 steps, restored, handler_save>>

\* samples[lo:(lo+self.fid_sample_batchsize)] = self.sess.run(self.sampler_fid)
\* rows are numbered from 1 here, so the slice is lo+1 .. lo+batchsize
SliceWritten(smp, from, size) ==
  [r \in DOMAIN smp |-> IF from < r /\ r <= from + size THEN smp[r] + 1 ELSE smp[r]]

\* for btch in range(n_batches): fill one sub-batch; lo += fid_sample_batchsize
FidFill ==
  /\ pc = "fid_fill"
  /\ IF btch < NBatches
       THEN \E ok \in BOOLEAN :
              IF ~ok THEN Raise /\ UNCHANGED <<samples, lo>>
              ELSE /\ samples' = SliceWritten(samples, lo, args.fid_sample_batchsize)
                   /\ lo' = lo + args.fid_sample_batchsize
                   /\ UNCHANGED <<pc, cause, raised_at, pending>>
       ELSE /\ pc' = "fid_stats"
            /\ UNCHANGED <<samples, lo, cause, raised_at, pending>>
  /\ UNCHANGED <<args, config, run, buildVars, coord, params, store, loopVars,
                 FID, fid, stepVars, restored, handler_save>>

\* mu_gen, sigma_gen = fid.calculate_activation_statistics(samples, ...)
FidStats ==
  /\ pc = "fid_stats"
  /\ \E ok \in BOOLEAN :
       IF ~ok THEN Raise
       ELSE pc' = "fid_dist" /\ UNCHANGED <<cause, raised_at, pending>>
  /\ UNCHANGED <<args, config, run, buildVars, coord, params, store, loopVars,
                 fidVars, stepVars, restored, handler_save>>

FidDistMut ==
  /\ pc = "fid_dist"
  /\ \E ok \in BOOLEAN :
       IF ~ok THEN Raise /\ UNCHANGED <<FID, caught>>
       ELSE /\ FID' \in ComputedFIDs
            /\ pc' = "fid_record"
            /\ UNCHANGED <<caught, cause, raised_at, pending>>
  /\ UNCHANGED <<args, config, run, buildVars, coord, params, store, loopVars,
                 lo, samples, fid, d_applied, g_applied, evaluated, saved, steps,
                 restored, handler_save>>
\* try: FID = fid.calculate_frechet_distance(...)  except Exception: FID=500
FidDist ==
  /\ pc = "fid_dist"
  /\ \E ok \in BOOLEAN :
       /\ IF ok THEN FID' \in ComputedFIDs /\ UNCHANGED caught
                ELSE FID' = SentinelFID /\ caught' = caught \cup {"frechet"}
       /\ pc' = "fid_record"
  /\ UNCHANGED <<args, config, run, cause, raised_at, pending, buildVars, coord,
                 params, store, loopVars, lo, samples, fid, d_applied, g_applied,
                 evaluated, saved, steps, restored, handler_save>>

\* self.sess.run(tf.assign(self.fid, FID)); summary_str = ...; add_summary
FidRecord ==
  /\ pc = "fid_record"
  /\ \E ok \in BOOLEAN :
       IF ~ok THEN Raise /\ fid' \in {fid, FID}
       ELSE /\ fid' = FID
            /\ pc' = "checkpoint"
            /\ UNCHANGED <<cause, raised_at, pending>>
  /\ UNCHANGED <<args, config, run, buildVars, coord, params, store, loopVars,
                 lo, samples, FID, stepVars, restored, handler_save>>

\* ------------------------------------------------------------------------
\* Checkpoints
\* ------------------------------------------------------------------------
\* save(checkpoint_dir, step): saver.save(sess, dir/model_dir/DCGAN.model,
\* global_step=step) writes every variable and makes it the latest checkpoint.
Save(st, dir, step, values) == [st EXCEPT ![dir] = [step |-> step, values |-> values]]

\* if (counter != 0) and (np.mod(counter, 2000) == 0): self.save(...)
Checkpoint ==
  /\ pc = "checkpoint"
  /\ IF CheckpointDue(counter)
       THEN \E ok \in BOOLEAN :
              IF ~ok THEN Raise /\ UNCHANGED <<store, saved>>
              ELSE /\ store' = Save(store, config.checkpoint_dir, counter, params)
                   /\ saved' = TRUE
                   /\ pc' = "increment"
                   /\ UNCHANGED <<cause, raised_at, pending>>
       ELSE /\ pc' = "increment"
            /\ UNCHANGED <<store, saved, cause, raised_at, pending>>
  /\ UNCHANGED <<args, config, run, buildVars, coord, params, loopVars, fidVars,
                 d_applied, g_applied, evaluated, steps, caught, restored,
                 handler_save>>

\* counter += 1
NextCounter(c) == c + 1

\* counter += 1, and the heads of the two for loops
Increment ==
  /\ pc = "increment"
  /\ counter' = NextCounter(counter)
  /\ steps' = steps + 1
  /\ d_applied' = 0
  /\ g_applied' = 0
  /\ evaluated' = FALSE
  /\ saved' = FALSE
  /\ caught' = {}
  /\ IF batch_idx + 1 < batch_nums
       THEN pc' = "d_first" /\ batch_idx' = batch_idx + 1 /\ UNCHANGED epoch
       ELSE pc' = "epoch_head" /\ epoch' = epoch + 1 /\ UNCHANGED batch_idx
  /\ UNCHANGED <<args, config, run, cause, raised_at, pending, buildVars, coord,
                 params, store, batch_nums, i, fidVars, restored, handler_save>>

\* ------------------------------------------------------------------------
\* Interrupts, the except clauses and the finally clause
\* ------------------------------------------------------------------------
\* A KeyboardInterrupt arrives while train() is at pc.  `except Exception`
\* clauses do not catch it: inside the try block it reaches
\* `except KeyboardInterrupt`, before the try block it leaves train().
Interrupt ==
  /\ pc \in PreTryPcs \cup TryPcs
  /\ IF pc \in TryPcs
       THEN /\ pc' = "except_interrupt"
            /\ cause' = "KeyboardInterrupt"
            /\ raised_at' = pc
            /\ UNCHANGED pending
       ELSE Propagate("KeyboardInterrupt")
  /\ UNCHANGED <<args, config, run, buildVars, coord, params, store, loopVars,
                 fidVars, stepVars, restored, handler_save>>

ExceptInterruptMut ==
  /\ pc = "except_interrupt"
  /\ pc' = "finally_stop"
  /\ UNCHANGED <<args, config, run, cause, raised_at, pending, buildVars, coord,
                 params, store, loopVars, fidVars, stepVars, restored, handler_save>>
\* except KeyboardInterrupt as e: self.save(config.checkpoint_dir, counter)
\* an error of the save propagates once the finally clause has run
ExceptInterrupt ==
  /\ pc = "except_interrupt"
  /\ handler_save' = counter
  /\ \E ok \in BOOLEAN :
       IF ok THEN /\ store' = Save(store, config.checkpoint_dir, counter, params)
                  /\ UNCHANGED pending
             ELSE /\ pending' = TRUE
                  /\ UNCHANGED store
  /\ pc' = "finally_stop"
  /\ UNCHANGED <<args, config, run, cause, raised_at, buildVars, coord, params,
                 loopVars, fidVars, stepVars, restored>>

ExceptExceptionMut ==
  /\ pc = "except_exception"
  /\ pc' = "returned"
  /\ UNCHANGED <<args, config, run, cause, raised_at, pending, buildVars, coord,
                 params, store, loopVars, fidVars, stepVars, restored, handler_save>>
\* except Exception as e: print(e)
ExceptException ==
  /\ pc = "except_exception"
  /\ pc' = "finally_stop"
  /\ UNCHANGED <<args, config, run, cause, raised_at, pending, buildVars, coord,
                 params, store, loopVars, fidVars, stepVars, restored, handler_save>>

\* finally: self.coord.request_stop()
FinallyStop ==
  /\ pc = "finally_stop"
  /\ coord' = "stop_requested"
  /\ pc' = "finally_join"
  /\ UNCHANGED <<args, config, run, cause, raised_at, pending, buildVars, params,
                 store, loopVars, fidVars, stepVars, restored, handler_save>>

\* finally: self.coord.join(self.threads); then train() returns, or the
\* exception still propagating leaves it
FinallyJoin ==
  /\ pc = "finally_join"
  /\ coord' = "joined"
  /\ pc' = IF pending THEN "raised" ELSE "returned"
  /\ UNCHANGED <<args, config, run, cause, raised_at, pending, buildVars, params,
                 store, loopVars, fidVars, stepVars, restored, handler_save>>

\* ------------------------------------------------------------------------
\* A second program run on the same checkpoint directories
\* ------------------------------------------------------------------------
Restart ==
  /\ run = "first"
  /\ pc \in {"returned", "raised", "config_error"}
  /\ \E a \in ArgsResume, c \in ConfigsResume :
       /\ args' = a
       /\ config' = c
       /\ fid_n_samples' = a.fid_n_samples
  /\ G_interpolate' = << >>
  /\ interpolates' = << >>
  /\ run' = "resumed"
  /\ pc' = "new"
  /\ cause' = "none"
  /\ raised_at' = "none"
  /\ pending' = FALSE
  /\ d_vars' = {}
  /\ g_vars' = {}
  /\ penalties' = NoPenaltyScalars
  /\ coord' = "none"
  /\ params' = << >>
  /\ counter' = 0
  /\ epoch' = 0
  /\ batch_idx' = 0
  /\ batch_nums' = 0
  /\ i' = 0
  /\ lo' = 0
  /\ samples' = << >>
  /\ FID' = 0
  /\ fid' = 0
  /\ d_applied' = 0
  /\ g_applied' = 0
  /\ evaluated' = FALSE
  /\ saved' = FALSE
  /\ steps' = 0
  /\ caught' = {}
  /\ restored' = NoCheckpoint
  /\ handler_save' = -1
  /\ UNCHANGED store

\* ------------------------------------------------------------------------
\* Specifications
\* ------------------------------------------------------------------------
Next ==
  \/ Construct
  \/ LoadStats
  \/ LoadCheckpoint
  \/ EpochHead
  \/ DFirst
  \/ DExtra
  \/ DSummary
  \/ GUpdate
  \/ GSummary
  \/ Sample
  \/ FidFill
  \/ FidStats
  \/ FidDist
  \/ FidRecord
  \/ Checkpoint
  \/ Increment
  \/ Interrupt
  \/ ExceptInterrupt
  \/ ExceptException
  \/ FinallyStop
  \/ FinallyJoin

NextResume == Next \/ Restart

\* the training loop over update ratios, cadences, epochs and batches
Spec == Init /\ [][Next]_vars

\* construction over the constructor arguments
SpecBuild == InitBuild /\ [][Next]_vars

\* construction over the methods and the shapes of the batch
SpecAlpha == InitAlpha /\ [][Next]_vars

\* two runs over the checkpoint directories and resume flags
SpecResume == InitResume /\ [][NextResume]_vars


\* ------------------------------------------------------------------------
\* Properties
\* ------------------------------------------------------------------------
Exited == pc \in {"returned", "raised"}
Built == pc \notin {"new", "config_error"}
InTrainLoop == pc \in TryPcs

\* C1: a step that completes (reaches counter += 1) has applied the
\* discriminator optimizer exactly num_discriminator_updates times and the
\* generator optimizer once when config.learning_rate_g > 0, never otherwise;
\* no step ever applies more than that.
C1_UpdatesPerStep ==
  /\ d_applied <= args.num_discriminator_updates
  /\ g_applied <= (IF config.learning_rate_g > 0 THEN 1 ELSE 0)
  /\ pc = "increment" =>
       /\ d_applied = args.num_discriminator_updates
       /\ g_applied = (IF config.learning_rate_g > 0 THEN 1 ELSE 0)

C1_Witness ==
  /\ pc = "increment"
  /\ args.num_discriminator_updates = 2
  /\ d_applied = 2
  /\ config.learning_rate_g = 0
  /\ g_applied = 0
  /\ steps = 1

\* C2 as stated: whenever train() has returned or propagated an exception,
\* whatever the exit path, the workers have been asked to stop and joined.
C2_StoppedOnEveryExit == Exited => coord = "joined"

\* C2 amended: every exit of train() that has entered the try block (normal
\* completion, an interrupt or an exception inside the loop, a failed save
\* in the interrupt handler) has the workers joined, and they are joined
\* only after they were asked to stop; an exit from the statements before
\* the try block leaves them running.
C2_StoppedOnLoopExit ==
  /\ [](Exited /\ raised_at \notin PreTryPcs => coord = "joined")
  /\ [](Exited /\ raised_at \in PreTryPcs => coord = "running")
  /\ [][coord' = "joined" /\ coord # "joined" => coord = "stop_requested"]_vars

C2_Witness ==
  /\ pc = "returned"
  /\ cause = "Exception"
  /\ raised_at = "d_first"
  /\ coord = "joined"

C4_NoFidErrorAborts ==
  ~(cause = "Exception" /\ raised_at \in {"fid_stats", "fid_dist"})

\* C4 amended: an error of the Frechet-distance call never ends the loop:
\* FID is set to 500, 500 is recorded as the FID scalar, and the step goes
\* on to the checkpoint check and the increment.  (An error of the
\* activation-statistics call is not caught in the step.)
C4_FrechetErrorRecovered ==
  /\ [](~(cause = "Exception" /\ raised_at = "fid_dist"))
  /\ []("frechet" \in caught /\ pc = "fid_record" => FID = SentinelFID)
  /\ []("frechet" \in caught /\ pc \in {"checkpoint", "increment"} => fid = SentinelFID)
  /\ [][pc = "fid_dist" /\ pc' # pc => pc' \in {"fid_record", "except_interrupt"}]_vars

C4_Witness ==
  /\ pc = "d_first"
  /\ steps = 1
  /\ fid = SentinelFID
  /\ cause = "none"

\* C5 as stated: a run whose restore succeeded starts its first step with
\* the restored parameter values and with the step counter of the restored
\* checkpoint.
C5_ResumesSavedCounter ==
  restored # NoCheckpoint /\ pc = "d_first" /\ steps = 0 =>
    /\ params = restored.values
    /\ counter = restored.step

\* C5 amended: a run whose restore succeeded starts its first step with the
\* parameter values of the latest checkpoint saved in its checkpoint_dir,
\* and with the step counter at the configured counter_start, whatever the
\* step the checkpoint was saved at.
C5_ResumesConfiguredCounter ==
  restored # NoCheckpoint /\ steps = 0 /\ pc \in {"epoch_head", "d_first"} =>
    /\ restored = store[args.checkpoint_dir]
    /\ params = restored.values
    /\ \A v \in DOMAIN params : params[v][1] = "first"
    /\ counter = args.counter_start

C5_Witness ==
  /\ run = "resumed"
  /\ restored # NoCheckpoint
  /\ restored.step = CheckpointEvery
  /\ pc = "d_first"
  /\ steps = 0
  /\ counter = 0
  /\ params = restored.values
  /\ \E v \in d_vars : params[v] = <<"first", 1>>

\* C6: d_vars and g_vars are disjoint (and neither is empty once built), a
\* run of the discriminator optimizer leaves every generator variable
\* unchanged and a run of the generator optimizer leaves every discriminator
\* variable unchanged.
C6_ParameterSetsPartitioned ==
  /\ [](d_vars \cap g_vars = {})
  /\ [](Built => d_vars # {} /\ g_vars # {} /\ d_vars \cup g_vars = DOMAIN params)
  /\ [][d_applied' = d_applied + 1 => \A v \in g_vars : params'[v] = params[v]]_vars
  /\ [][g_applied' = g_applied + 1 => \A v \in d_vars : params'[v] = params[v]]_vars

C6_Witness ==
  /\ pc = "g_summary"
  /\ ~args.discriminator_batch_norm
  /\ Cardinality(d_vars) = 5
  /\ Cardinality(g_vars) = 9
  /\ \A v \in d_vars : params[v] = <<"first", 2>>
  /\ \A v \in g_vars : params[v] = <<"first", 1>>

\* C7: after build_model all four penalty scalars are defined; under
\* regular_gan all four are the constant zero, under improved_wgan the
\* Lipschitz penalty, the mean slope target and the Lipschitz estimate are.
C7_UnselectedPenaltiesZero ==
  Built =>
    /\ \A f \in DOMAIN penalties : penalties[f] \in {Zero, Computed}
    /\ args.gan_method = "regular_gan" =>
         \A f \in DOMAIN penalties : penalties[f] = Zero
    /\ args.gan_method = "improved_wgan" =>
         /\ penalties.d_lipschitz_penalty_loss = Zero
         /\ penalties.d_mean_slope_target = Zero
         /\ penalties.d_lipschitz_estimate = Zero

C7_Witness ==
  /\ pc = "increment"
  /\ args.gan_method = "improved_wgan"
  /\ penalties.d_gradient_penalty_loss = Computed
  /\ penalties.d_mean_slope_target = Zero

\* the configuration errors C8 lists
ConfigurationError ==
  \/ args.gan_method \notin {"penalized_wgan", "improved_wgan", "regular_gan"}
  \/ args.lipschitz_penalty < 0
  \/ args.gradient_penalty < 0
  \/ args.num_discriminator_updates < 1
  \/ args.y_dim # YDimNone

\* C8: with a configuration error the constructor fails: the run never gets
\* past construction, no data-feed worker is started, no variable is
\* initialised and no training step or optimizer run happens.
C8_ConfigurationErrorsFailConstruction ==
  ConfigurationError =>
    /\ pc \in {"new", "config_error"}
    /\ coord = "none"
    /\ params = << >>
    /\ steps = 0 /\ d_applied = 0 /\ g_applied = 0

C8_Witness ==
  /\ pc = "config_error"
  /\ args.gan_method = "bogus"
  /\ args.lipschitz_penalty >= 0 /\ args.gradient_penalty >= 0
  /\ args.num_discriminator_updates >= 1 /\ args.y_dim = YDimNone
  /\ coord = "none"

\* C9: after construction fid_n_samples is the requested number rounded down
\* to a multiple of fid_sample_batchsize; while the sample set is filled the
\* rows below lo are written once and the others not yet, and when the fill
\* loop ends every row has been written exactly once by exactly
\* fid_n_samples / fid_sample_batchsize sampler runs.
C9_FidSamplesWholeBatches ==
  Built =>
    /\ fid_n_samples = (args.fid_n_samples \div args.fid_sample_batchsize)
                         * args.fid_sample_batchsize
    /\ pc \in {"fid_fill", "fid_stats"} =>
         /\ Len(samples) = fid_n_samples
         /\ lo <= fid_n_samples
         /\ \A r \in 1..Len(samples) : samples[r] = (IF r <= lo THEN 1 ELSE 0)
    /\ pc = "fid_stats" =>
         /\ lo = fid_n_samples
         /\ btch * args.fid_sample_batchsize = fid_n_samples

C9_Witness ==
  /\ pc = "fid_stats"
  /\ args.fid_n_samples = 3
  /\ args.fid_sample_batchsize = 2
  /\ fid_n_samples = 2
  /\ samples = <<1, 1>>

\* C10: inside train() the counter is counter_start plus the number of
\* completed steps, it changes only by the +1 that ends a step, and a step
\* that reaches its end without error has saved the periodic checkpoint
\* exactly when the counter is a positive multiple of 2000 and has run the
\* sample/FID evaluation exactly when the counter is a multiple of
\* config.fid_eval_steps; no step does either at any other counter.
C10_CounterDrivesCadences ==
  /\ [](InTrainLoop => counter = args.counter_start + steps)
  /\ [](saved => counter > 0 /\ counter % 2000 = 0)
  /\ [](evaluated => counter % config.fid_eval_steps = 0)
  /\ [](pc = "increment" =>
          /\ saved = (counter > 0 /\ counter % 2000 = 0)
          /\ evaluated = (counter % config.fid_eval_steps = 0))
  /\ [][InTrainLoop =>
          /\ counter' >= counter
          /\ counter' # counter => pc = "increment" /\ counter' = counter + 1]_vars

C10_Witness ==
  /\ pc = "increment"
  /\ args.counter_start = CheckpointEvery - 1
  /\ counter = CheckpointEvery
  /\ saved
  /\ evaluated
  /\ config.fid_eval_steps = 2
  /\ store[config.checkpoint_dir].step = CheckpointEvery


\* C11: an error of the sampler run or of save_images in the periodic
\* sample-grid block never reaches the outer handler: the step goes on to
\* the FID sample fill, and a step that reaches the checkpoint check or the
\* increment after such an error has filled the sample set and recorded a
\* FID value; the increment then adds 1 to the counter and the loop
\* continues.
C11_SampleErrorCaughtInStep ==
  /\ [](~(cause = "Exception" /\ raised_at = "sample"))
  /\ []("sample" \in caught /\ pc \in {"checkpoint", "increment"} =>
          /\ evaluated
          /\ lo = fid_n_samples
          /\ \A r \in 1..Len(samples) : samples[r] = 1
          /\ fid \in ComputedFIDs \cup {SentinelFID})
  /\ [][pc = "sample" /\ pc' # pc =>
          pc' \in {"fid_fill", "checkpoint", "except_interrupt"}]_vars
  /\ [][pc = "increment" /\ "sample" \in caught /\ pc' # "except_interrupt" =>
          counter' = counter + 1 /\ pc' \in {"d_first", "epoch_head"}]_vars

C11_Witness ==
  /\ "sample" \in caught
  /\ pc = "increment"
  /\ steps = 1
  /\ evaluated
  /\ fid \in ComputedFIDs
  /\ cause = "none"


\* C12: under improved_wgan every element [n, h, w, c] of the interpolates
\* is mixed with the component of alpha that belongs to its sample n, so
\* all elements of a sample share one coefficient and two samples use two
\* different components of alpha; the interpolates have the shape of the batch.
C12_AlphaPerSample ==
  Built /\ args.gan_method = "improved_wgan" =>
    /\ DOMAIN interpolates = Elements(ImageShape(args))
    /\ \A e \in DOMAIN interpolates : interpolates[e] = <<e[1], 1>>

\* the coefficient of self.G_interpolate (alpha of shape [batch_size,1,1,1])
\* is the per-sample one under every method
GInterpolatePerSample ==
  Built => /\ DOMAIN G_interpolate = Elements(ImageShape(args))
           /\ \A e \in DOMAIN G_interpolate : G_interpolate[e] = <<e[1], 1, 1, 1>>


\* floor(min(len(paths), train_size) / batch_size), as C13 states it
WholeBatches ==
  (IF args.npaths < config.train_size THEN args.npaths ELSE config.train_size)
    \div config.batch_size

\* C13: train() never runs more than epoch * floor(min(len(paths),
\* train_size) / batch_size) steps, every epoch starts after a whole number
\* of epochs of that many steps each, a run without error or interrupt
\* returns after exactly that many steps with the counter at counter_start
\* plus that product, and until train() has ended a next step is always
\* possible (the loops never get stuck).
C13_StepsOfARun ==
  /\ steps <= config.epoch * WholeBatches
  /\ pc = "epoch_head" => steps = epoch * WholeBatches /\ epoch <= config.epoch
  /\ pc \in TryPcs \ {"epoch_head"} =>
       /\ epoch < config.epoch
       /\ batch_idx < WholeBatches
       /\ steps = epoch * WholeBatches + batch_idx
  /\ pc = "returned" /\ cause = "none" =>
       /\ steps = config.epoch * WholeBatches
       /\ counter = args.counter_start + config.epoch * WholeBatches
  /\ pc \in {"returned", "raised", "config_error"} \/ ENABLED Next

C13_Witness ==
  /\ pc = "returned"
  /\ cause = "none"
  /\ args.npaths = 3
  /\ config.train_size = 3
  /\ config.batch_size = 2
  /\ config.epoch = 2
  /\ steps = 2
  /\ counter = args.counter_start + 2


\* an error that left its step inside the try block
LoopError == cause = "Exception" /\ raised_at \in TryPcs

====
